---- MODULE Spec2Model ----
(***************************************************************************)
(* Persistence layer of the text based video editor: the project registry  *)
(* (database/models.py, utils/project_manager.py) and the per-project      *)
(* store (database/project_db.py).                                         *)
(***************************************************************************)
EXTENDS Integers, Sequences, FiniteSets, TLC

VARIABLES
    media_files,    \* store: rows of table media_files
    timeline,       \* store: rows of table timeline
    effects,        \* store: rows of table effects
    store_seq,      \* store: sqlite_sequence (last AUTOINCREMENT id per table)
    store_result,   \* store: what the last store call returned
    projects,       \* registry: rows of table projects
    projects_seq,   \* registry: sqlite_sequence of table projects
    disk,           \* directories under projects/, by name, with their content
    archives,       \* zip files written by export_project, by file stem
    reg_result,     \* registry: what the last registry call returned
    project_settings,   \* store: rows of table project_settings, by key
    project_files,  \* registry: table project_files and its sqlite_sequence
    now,            \* the clock CURRENT_TIMESTAMP reads, in seconds
    calls,          \* the calls in progress, one per caller, with their position
    sanitized,      \* a name and what _sanitize_name made of it
    source_files    \* store: the files in sources/ of the project's directory

store_vars == <<media_files, timeline, effects, store_seq, store_result,
                project_settings, source_files>>
reg_vars == <<projects, projects_seq, disk, archives, reg_result, project_files>>
env_vars == <<now, calls, sanitized>>

vars == <<media_files, timeline, effects, store_seq, store_result,
          projects, projects_seq, disk, archives, reg_result,
          project_settings, project_files, now, calls, sanitized,
          source_files>>

(***************************************************************************)
(* Bounds of the model.                                                    *)
(***************************************************************************)
MaxRows == 4        \* rows ever inserted into one store, all tables together
MaxProjects == 2    \* rows ever inserted into the registry
MaxArchives == 1    \* zip files export_project has written
MaxTime == 2        \* seconds the clock advances
MaxFiles == 1       \* rows ever inserted into project_files

FileNames == {"a.mp4"}
SettingKeys == {"framerate", "fps"}
SettingValues == {"30", "60"}
SettingsBlobs == {"{\"fps\": 60}"}
Tracks == {0, 1}
Positions == {2, 5, 10}

\* ids a caller may pass: every id handed out so far and one never handed out
MediaIdArgs == 1..2
TimelineIdArgs == 1..MaxRows
EffectIdArgs == 1..2

(***************************************************************************)
(* Project store: database/project_db.py                                   *)
(***************************************************************************)

\* sqlite3.connect() leaves PRAGMA foreign_keys at its default, OFF, and no
\* statement of the store turns it on: REFERENCES and ON DELETE CASCADE of the
\* schema are parsed but not enforced.
foreign_keys == FALSE

\* INSERT OR IGNORE INTO project_settings, for each default
default_settings ==
    {[key |-> "resolution", value |-> "1920x1080", modified_at |-> 0],
     [key |-> "framerate", value |-> "30", modified_at |-> 0],
     [key |-> "audio_sample_rate", value |-> "44100", modified_at |-> 0],
     [key |-> "audio_channels", value |-> "2", modified_at |-> 0]}

\* the mutant of seed_settings: nothing is seeded
seed_nothing(rows, at) == rows

\* the mutant of seed_settings: INSERT OR REPLACE in place of INSERT OR IGNORE
reset_settings(rows, at) ==
    {r \in rows : r.key \notin {d.key : d \in default_settings}}
        \cup {[d EXCEPT !.modified_at = at] : d \in default_settings}

\* INSERT OR IGNORE INTO project_settings (key, value) for each default: a
\* key that has a row keeps it
seed_settings(rows, at) ==
    rows \cup {[d EXCEPT !.modified_at = at] :
                  d \in {x \in default_settings :
                            x.key \notin {r.key : r \in rows}}}

\* the store of a project whose ProjectDatabase has been constructed
StoreInit ==
    /\ project_settings = seed_settings({}, 0)
    /\ media_files = {}
    /\ timeline = {}
    /\ effects = {}
    /\ store_seq = [media_files |-> 0, timeline |-> 0, effects |-> 0]
    /\ store_result = [op |-> "open", ok |-> TRUE, id |-> 0]
    /\ source_files = << >>

\* ProjectDatabase.__init__ has run: project.db and its tables exist
constructed == store_result.op # "none"

\* ProjectDatabase(project_path): ensure_database_exists() on a project.db
\* that is there or not; CREATE TABLE IF NOT EXISTS keeps a table that exists
ensure_database_exists ==
    /\ project_settings' = seed_settings(project_settings, now)
    /\ store_result' = [op |-> "open", ok |-> TRUE, id |-> 0]
    /\ UNCHANGED <<media_files, timeline, effects, store_seq, source_files>>
    /\ UNCHANGED <<reg_vars, env_vars>>

\* the mutant of autoincrement: INTEGER PRIMARY KEY without AUTOINCREMENT, the
\* rowid after the largest one in the table
rowid_after_max(seq, ids) ==
    IF ids = {} THEN 1 ELSE (CHOOSE i \in ids : \A j \in ids : j <= i) + 1

\* id INTEGER PRIMARY KEY AUTOINCREMENT: the id after the largest one the
\* table ever held, which sqlite_sequence remembers
autoincrement(seq, ids) == seq + 1

RowsInserted == store_seq.media_files + store_seq.timeline + store_seq.effects

MediaIds == {m.id : m \in media_files}
TimelineIds == {t.id : t \in timeline}

\* the rows ON DELETE CASCADE removes, when the pragma is on
TimelineOfMedia(file_id) == {t \in timeline : t.media_id = file_id}
EffectsOfTimeline(ids) == {e \in effects : e.timeline_id \in ids}

\* what add_media_file does to project.db; file_path is sources/<file_name>
media_files_insert(file_name) ==
    /\ constructed
    /\ RowsInserted < MaxRows
    /\ LET id == autoincrement(store_seq.media_files, MediaIds) IN
        /\ media_files' = media_files \cup {[id |-> id, file_name |-> file_name]}
        /\ store_seq' = [store_seq EXCEPT !.media_files = id]
        /\ store_result' = [op |-> "add_media_file", ok |-> TRUE, id |-> id]
    /\ UNCHANGED <<timeline, effects>>
    /\ UNCHANGED <<project_settings, reg_vars, env_vars>>

\* ProjectDatabase.add_media_file writes no file
add_media_file(file_name) ==
    /\ media_files_insert(file_name)
    /\ UNCHANGED source_files

\* what delete_media_file does to project.db
media_files_delete(file_id) ==
    /\ constructed
    /\ media_files' = {m \in media_files : m.id # file_id}
    /\ IF foreign_keys /\ file_id \in MediaIds
       THEN /\ timeline' = timeline \ TimelineOfMedia(file_id)
            /\ effects' = effects \ EffectsOfTimeline(
                              {t.id : t \in TimelineOfMedia(file_id)})
       ELSE UNCHANGED <<timeline, effects>>
    /\ store_result' = [op |-> "delete_media_file", ok |-> TRUE, id |-> 0]
    /\ UNCHANGED store_seq
    /\ UNCHANGED <<project_settings, reg_vars, env_vars>>

\* ProjectDatabase.delete_media_file removes no file
delete_media_file(file_id) ==
    /\ media_files_delete(file_id)
    /\ UNCHANGED source_files

\* the files a user picks in the dialog: a directory and a base name
Origins == {"/videos", "/downloads"}
MediaNames == {"a.mp4", "b.mp4"}

\* shutil.copy2(file_path, destination), destination sources/<base name>: a
\* file of that name is overwritten
copy2(files, origin, file_name) ==
    [x \in DOMAIN files \cup {file_name} |->
        IF x = file_name THEN origin ELSE files[x]]

\* if os.path.exists(file_path): os.remove(file_path)
remove_file(files, file_name) == [x \in DOMAIN files \ {file_name} |-> files[x]]

\* ProjectWindow.add_media for one picked file: the copy, then the record; a
\* copy that raises leaves both undone
add_media(origin, file_name, io_fault) ==
    IF io_fault
    THEN /\ constructed
         /\ store_result' = [op |-> "add_media", ok |-> FALSE, id |-> 0]
         /\ UNCHANGED <<media_files, timeline, effects, store_seq>>
         /\ UNCHANGED <<project_settings, source_files, reg_vars, env_vars>>
    ELSE /\ source_files' = copy2(source_files, origin, file_name)
         /\ media_files_insert(file_name)

\* ProjectWindow.delete_media(media_data), media_data a record of the list:
\* the file is removed, then the record; a removal that raises leaves both
delete_media(media_data, io_fault) ==
    IF io_fault /\ media_data.file_name \in DOMAIN source_files
    THEN /\ constructed
         /\ store_result' = [op |-> "delete_media", ok |-> FALSE, id |-> 0]
         /\ UNCHANGED <<media_files, timeline, effects, store_seq>>
         /\ UNCHANGED <<project_settings, source_files, reg_vars, env_vars>>
    ELSE /\ source_files' = remove_file(source_files, media_data.file_name)
         /\ media_files_delete(media_data.id)

add_timeline_item(media_id, track_number, position) ==
    /\ constructed
    /\ RowsInserted < MaxRows
    /\ IF foreign_keys /\ media_id \notin MediaIds
       THEN \* IntegrityError, caught by "except Exception"
            /\ store_result' = [op |-> "add_timeline_item", ok |-> FALSE, id |-> 0]
            /\ UNCHANGED <<timeline, store_seq>>
       ELSE LET id == autoincrement(store_seq.timeline, TimelineIds) IN
            /\ timeline' = timeline \cup
                   {[id |-> id, media_id |-> media_id,
                     track_number |-> track_number, position |-> position]}
            /\ store_seq' = [store_seq EXCEPT !.timeline = id]
            /\ store_result' = [op |-> "add_timeline_item", ok |-> TRUE, id |-> id]
    /\ UNCHANGED <<media_files, effects>>
    /\ UNCHANGED <<project_settings, source_files, reg_vars, env_vars>>

delete_timeline_item(item_id) ==
    /\ constructed
    /\ timeline' = {t \in timeline : t.id # item_id}
    /\ IF foreign_keys /\ item_id \in TimelineIds
       THEN effects' = effects \ EffectsOfTimeline({item_id})
       ELSE UNCHANGED effects
    /\ store_result' = [op |-> "delete_timeline_item", ok |-> TRUE, id |-> 0]
    /\ UNCHANGED <<media_files, store_seq>>
    /\ UNCHANGED <<project_settings, source_files, reg_vars, env_vars>>

add_effect(timeline_id) ==
    /\ constructed
    /\ RowsInserted < MaxRows
    /\ IF foreign_keys /\ timeline_id \notin TimelineIds
       THEN /\ store_result' = [op |-> "add_effect", ok |-> FALSE, id |-> 0]
            /\ UNCHANGED <<effects, store_seq>>
       ELSE LET id == autoincrement(store_seq.effects, {e.id : e \in effects}) IN
            /\ effects' = effects \cup {[id |-> id, timeline_id |-> timeline_id]}
            /\ store_seq' = [store_seq EXCEPT !.effects = id]
            /\ store_result' = [op |-> "add_effect", ok |-> TRUE, id |-> id]
    /\ UNCHANGED <<media_files, timeline>>
    /\ UNCHANGED <<project_settings, source_files, reg_vars, env_vars>>

delete_effect(effect_id) ==
    /\ constructed
    /\ effects' = {e \in effects : e.id # effect_id}
    /\ store_result' = [op |-> "delete_effect", ok |-> TRUE, id |-> 0]
    /\ UNCHANGED <<media_files, timeline, store_seq>>
    /\ UNCHANGED <<project_settings, source_files, reg_vars, env_vars>>

\* the mutant of replace_setting: INSERT without OR REPLACE and without the
\* PRIMARY KEY
insert_setting(rows, key, value, at) ==
    rows \cup {[key |-> key, value |-> value, modified_at |-> at]}

\* INSERT OR REPLACE INTO project_settings (key, value, modified_at): the row
\* that holds the PRIMARY KEY key is deleted, then the new row is inserted
replace_setting(rows, key, value, at) ==
    {r \in rows : r.key # key}
        \cup {[key |-> key, value |-> value, modified_at |-> at]}

update_project_setting(key, value, fault) ==
    /\ constructed
    /\ IF fault
       THEN /\ store_result' = [op |-> "update_project_setting", ok |-> FALSE, id |-> 0]
            /\ UNCHANGED project_settings
       ELSE /\ project_settings' = replace_setting(project_settings, key, value, now)
            /\ store_result' = [op |-> "update_project_setting", ok |-> TRUE, id |-> 0]
    /\ UNCHANGED <<media_files, timeline, effects, store_seq, source_files>>
    /\ UNCHANGED <<reg_vars, env_vars>>

\* get_project_settings(): settings[row['key']] = row['value'] for each row;
\* of rows that share a key, the one written last stays in the dict
get_project_settings ==
    [k \in {r.key : r \in project_settings} |->
        LET rows == {r \in project_settings : r.key = k}
            last == CHOOSE r \in rows : \A o \in rows : o.modified_at <= r.modified_at
        IN  last.value]

\* a second passes
tick ==
    /\ now < MaxTime
    /\ now' = now + 1
    /\ UNCHANGED <<store_vars, reg_vars, calls, sanitized>>

\* ORDER BY t.track_number, t.position; rows equal in both keep rowid order
TimelineBefore(a, b) ==
    \/ a.track_number < b.track_number
    \/ a.track_number = b.track_number /\ a.position < b.position
    \/ a.track_number = b.track_number /\ a.position = b.position /\ a.id < b.id

RECURSIVE OrderTimeline(_)
OrderTimeline(rows) ==
    IF rows = {} THEN <<>>
    ELSE LET first == CHOOSE r \in rows :
                          \A o \in rows \ {r} : TimelineBefore(r, o)
         IN <<first>> \o OrderTimeline(rows \ {first})

\* the mutant of get_timeline_items: ORDER BY t.position alone
PositionBefore(a, b) ==
    \/ a.position < b.position
    \/ a.position = b.position /\ a.id < b.id

RECURSIVE OrderByPosition(_)
OrderByPosition(rows) ==
    IF rows = {} THEN <<>>
    ELSE LET first == CHOOSE r \in rows :
                          \A o \in rows \ {r} : PositionBefore(r, o)
         IN <<first>> \o OrderByPosition(rows \ {first})

\* FROM timeline t JOIN media_files m ON t.media_id = m.id
TimelineJoinMedia ==
    {[id |-> t.id, media_id |-> t.media_id, track_number |-> t.track_number,
      position |-> t.position, file_name |-> m.file_name] :
        <<t, m>> \in {p \in timeline \X media_files : p[1].media_id = p[2].id}}

get_timeline_items_by_position == OrderByPosition(TimelineJoinMedia)

get_timeline_items == OrderTimeline(TimelineJoinMedia)

\* SELECT * FROM effects WHERE timeline_id = ?
get_effects_for_timeline_item(timeline_id) ==
    {e \in effects : e.timeline_id = timeline_id}

StoreNext ==
    \/ \E f \in FileNames : add_media_file(f)
    \/ \E m \in MediaIdArgs : delete_media_file(m)
    \/ \E m \in MediaIdArgs, tr \in Tracks, pos \in Positions :
           add_timeline_item(m, tr, pos)
    \/ \E t \in TimelineIdArgs : delete_timeline_item(t)
    \/ \E t \in TimelineIdArgs : add_effect(t)
    \/ \E e \in EffectIdArgs : delete_effect(e)


(***************************************************************************)
(* Names. A name is a sequence of characters.                              *)
(***************************************************************************)
None == <<"None">>          \* Python's None, which is no string
TypeError == <<"TypeError">>    \* the call raised TypeError and returned nothing
Unset == <<"Unset">>        \* no value yet

invalid_chars == {"<", ">", ":", "\"", "/", "\\", "|", "?", "*"}
MaxNameLen == 255

RECURSIVE lstrip(_)
lstrip(name) ==
    IF name # <<>> /\ Head(name) \in {".", " "} THEN lstrip(Tail(name)) ELSE name

RECURSIVE rstrip(_)
rstrip(name) ==
    IF name # <<>> /\ name[Len(name)] \in {".", " "}
    THEN rstrip(SubSeq(name, 1, Len(name) - 1))
    ELSE name

\* "for c in name" raises TypeError when name is None
_sanitize_name(name) ==
    LET kept == SelectSeq(name, LAMBDA c : c \notin invalid_chars)
        safe_name == rstrip(lstrip(kept))
    IN  IF name = None THEN TypeError
        ELSE IF safe_name = <<>> \/ Len(safe_name) > MaxNameLen THEN None
        ELSE safe_name

\* str.replace(old, ''): every occurrence of old, left to right, is dropped
RECURSIVE remove_all(_, _)
remove_all(text, old) ==
    IF Len(text) < Len(old) THEN text
    ELSE IF SubSeq(text, 1, Len(old)) = old
         THEN remove_all(SubSeq(text, Len(old) + 1, Len(text)), old)
         ELSE <<Head(text)>> \o remove_all(Tail(text), old)

export_suffix == <<"_", "e", "x", "p", "o", "r", "t">>

\* the strings _sanitize_name is applied to: every string of up to MaxLen
\* characters of SanitizeAlphabet, and strings around the length limit
MaxLen == 3
SanitizeAlphabet == {"a", "*", ".", " "}
LongName(n) == [i \in 1..n |-> "a"]
SanitizeInputs ==
    UNION {[1..n -> SanitizeAlphabet] : n \in 0..MaxLen}
        \cup {LongName(MaxNameLen), LongName(MaxNameLen + 1),
              <<".">> \o LongName(MaxNameLen), LongName(MaxNameLen + 1) \o <<"*">>}

\* safe_name = _sanitize_name(name)
sanitize_once ==
    /\ sanitized.once = Unset
    /\ sanitized' = [sanitized EXCEPT !.once = _sanitize_name(sanitized.name)]
    /\ UNCHANGED <<store_vars, reg_vars, now, calls>>

\* _sanitize_name(safe_name)
sanitize_twice ==
    /\ sanitized.once # Unset
    /\ sanitized.twice = Unset
    /\ sanitized' = [sanitized EXCEPT !.twice = _sanitize_name(sanitized.once)]
    /\ UNCHANGED <<store_vars, reg_vars, now, calls>>

\* the names a caller types
RawNames == {<<"a">>, <<"b">>, <<"a", "*">>}
FaultChoices == BOOLEAN     \* whether the database statement of a call is made to fail

\* the stems export_project can give an archive
ArchiveStems ==
    {n \o export_suffix : n \in RawNames \cup {_sanitize_name(r) : r \in RawNames}}

(***************************************************************************)
(* Project registry: database/models.py and utils/project_manager.py       *)
(***************************************************************************)
structure_dirs == {"sources", "output", "temp", "cache"}
\* a directory under projects/: its entries, and what lies in its temp/ and
\* cache/ subdirectories
project_structure ==
    [entries |-> structure_dirs \cup {"project.json"}, temp |-> {}, cache |-> {}]
empty_directory == [entries |-> {}, temp |-> {}, cache |-> {}]
required_entries == {"sources", "output", "temp", "project.json"}

MsgCreated == "Project created successfully"
MsgNameExists == "A project with this name already exists"
MsgDbError == "Error creating project"
MsgInvalidName == "Invalid project name"
MsgAlreadyExists == "Project already exists"
MsgRenamed == "Project renamed successfully"
MsgDeleted == "Project deleted successfully"
MsgNotFound == "Project not found"
MsgDirNotFound == "Project directory not found"
MsgExported == "Project exported"
MsgImportNotFound == "Import file not found"
MsgInvalidStructure == "Invalid project structure"
MsgImportExists == "Project with this name already exists"
MsgImported == "Project imported successfully"
MsgImportError == "Error importing project"
MsgDeleteError == "Error deleting project"
MsgSettingsUpdated == "Settings updated successfully"
MsgSettingsError == "Error updating settings"
MsgFileAdded == "File added successfully"
MsgFileError == "Error adding file"
MsgFileDeleted == "File deleted successfully"
MsgFileNotFound == "File not found"
MsgCleaned == "Temporary files cleaned successfully"
MsgCleanError == "Error cleaning temporary files"

\* the project whose window is open: the model's store is the project.db in
\* its directory
open_project == 1

\* who calls the registry: two callers that run at the same time
Callers == {1, 2}
IoFaultChoices == BOOLEAN   \* whether the filesystem operation of a step fails

\* a caller that is in no call; outcome is how its last call ended
idle_call ==
    [pc |-> "idle", op |-> "none", name |-> <<>>, id |-> 0, msg |-> "",
     outcome |-> "none"]

EnvInit ==
    /\ now = 0
    /\ calls = [c \in Callers |-> idle_call]
    /\ sanitized = [name |-> <<>>, once |-> Unset, twice |-> Unset]

RegInit ==
    /\ projects = {}
    /\ projects_seq = 0
    /\ disk = <<>>
    /\ archives = <<>>
    /\ reg_result = [op |-> "init", ok |-> TRUE, msg |-> "", name |-> <<>>]
    /\ project_files = [rows |-> {}, seq |-> 0]

Init == StoreInit /\ RegInit /\ EnvInit

ProjectIds == {p.id : p \in projects}
ProjectNames == {p.name : p \in projects}
get_project_by_id(project_id) == {p \in projects : p.id = project_id}
get_project_by_name(name) == {p \in projects : p.name = name}

\* f"projects/{name}": a directory is known by its name under projects/
project_path_of(name) == name

\* shutil.rmtree(path)
rmtree(d, path) == [x \in DOMAIN d \ {path} |-> d[x]]

\* os.makedirs(path, exist_ok=True)
makedirs(d, path) ==
    IF path \in DOMAIN d THEN d
    ELSE [x \in DOMAIN d \cup {path} |-> IF x = path THEN empty_directory ELSE d[x]]

\* _create_project_structure on a path that does not exist
create_project_structure(d, path) ==
    [x \in DOMAIN d \cup {path} |-> IF x = path THEN project_structure ELSE d[x]]

\* the mutant of insert_project: the name column without its UNIQUE constraint
insert_project_not_unique(name, fault) ==
    IF fault
    THEN [ok |-> FALSE, msg |-> MsgDbError, rows |-> projects, seq |-> projects_seq]
    ELSE [ok |-> TRUE, msg |-> MsgCreated,
          rows |-> projects \cup {[id |-> projects_seq + 1, name |-> name,
                                   project_path |-> project_path_of(name),
                                   modified_at |-> now, settings |-> "{}"]},
          seq |-> projects_seq + 1]

\* INSERT INTO projects (name, project_path, settings): what create_project
\* of DatabaseManager returns and the table after it. fault is a failure of
\* the statement other than the UNIQUE constraint.
insert_project(name, fault) ==
    IF fault
    THEN [ok |-> FALSE, msg |-> MsgDbError, rows |-> projects, seq |-> projects_seq]
    ELSE IF name \in ProjectNames
    THEN [ok |-> FALSE, msg |-> MsgNameExists, rows |-> projects, seq |-> projects_seq]
    ELSE LET id == autoincrement(projects_seq, ProjectIds) IN
         [ok |-> TRUE, msg |-> MsgCreated,
          rows |-> projects \cup {[id |-> id, name |-> name,
                                   project_path |-> project_path_of(name),
                                   modified_at |-> now, settings |-> "{}"]},
          seq |-> id]

\* DatabaseManager.create_project(name), as MainWindow.create_new_project calls it
db_create_project(name, fault) ==
    /\ LET r == insert_project(name, fault) IN
        /\ r.ok => projects_seq < MaxProjects
        /\ disk' = makedirs(disk, project_path_of(name))
        /\ projects' = r.rows
        /\ projects_seq' = r.seq
        /\ reg_result' = [op |-> "db_create_project", ok |-> r.ok, msg |-> r.msg,
                          name |-> name]
    /\ UNCHANGED <<archives, project_files, store_vars, env_vars>>

\* the mutant of remove_created_directory: the directory is left behind
keep_created_directory(d, path) == d

\* lines 39-42 of create_project: shutil.rmtree(project_path) after a failed insert
remove_created_directory(d, path) == rmtree(d, path)

\* ProjectManager.create_project(name)
create_project(name, fault) ==
    /\ LET safe_name == _sanitize_name(name)
           project_path == project_path_of(safe_name)
           created == create_project_structure(disk, project_path)
           r == insert_project(safe_name, fault)
       IN  IF safe_name = None
           THEN /\ reg_result' = [op |-> "create_project", ok |-> FALSE,
                                  msg |-> MsgInvalidName, name |-> name]
                /\ UNCHANGED <<projects, projects_seq, disk>>
           ELSE IF project_path \in DOMAIN disk
           THEN /\ reg_result' = [op |-> "create_project", ok |-> FALSE,
                                  msg |-> MsgAlreadyExists, name |-> name]
                /\ UNCHANGED <<projects, projects_seq, disk>>
           ELSE /\ r.ok => projects_seq < MaxProjects
                /\ projects' = r.rows
                /\ projects_seq' = r.seq
                /\ disk' = IF r.ok THEN created
                           ELSE remove_created_directory(created, project_path)
                /\ reg_result' = [op |-> "create_project", ok |-> r.ok,
                                  msg |-> r.msg, name |-> name]
    /\ UNCHANGED <<archives, project_files, store_vars, env_vars>>

\* DatabaseManager.rename_project(project_id, new_name, new_path): one UPDATE
\* of the row; no directory is touched
rename_project(project_id, new_name, new_path) ==
    /\ IF \E p \in projects : p.id # project_id /\ p.name = new_name
          /\ project_id \in ProjectIds
       THEN \* IntegrityError
            /\ reg_result' = [op |-> "rename_project", ok |-> FALSE,
                              msg |-> MsgNameExists, name |-> new_name]
            /\ UNCHANGED projects
       ELSE /\ projects' = {IF p.id = project_id
                            THEN [p EXCEPT !.name = new_name,
                                           !.project_path = new_path,
                                           !.modified_at = now]
                            ELSE p : p \in projects}
            /\ reg_result' = [op |-> "rename_project", ok |-> TRUE,
                              msg |-> MsgRenamed, name |-> new_name]
    /\ UNCHANGED <<projects_seq, disk, archives, project_files, store_vars, env_vars>>

\* DatabaseManager.delete_project(project_id)
delete_project(project_id) ==
    /\ IF project_id \in ProjectIds
       THEN LET project == CHOOSE p \in projects : p.id = project_id IN
            /\ projects' = projects \ {project}
            /\ disk' = rmtree(disk, project.project_path)
            /\ reg_result' = [op |-> "delete_project", ok |-> TRUE,
                              msg |-> MsgDeleted, name |-> project.name]
       ELSE /\ reg_result' = [op |-> "delete_project", ok |-> FALSE,
                              msg |-> MsgNotFound, name |-> <<>>]
            /\ UNCHANGED <<projects, disk>>
    /\ UNCHANGED <<projects_seq, archives, project_files, store_vars, env_vars>>

\* ProjectManager.export_project(project_id, export_path): the archive is
\* written as <name>_export.zip and holds the tree of the project directory
export_project(project_id) ==
    /\ IF project_id \notin ProjectIds
       THEN /\ reg_result' = [op |-> "export_project", ok |-> FALSE,
                              msg |-> MsgNotFound, name |-> <<>>]
            /\ UNCHANGED archives
       ELSE LET project == CHOOSE p \in projects : p.id = project_id
                stem == project.name \o export_suffix
            IN  IF project.project_path \notin DOMAIN disk
                THEN /\ reg_result' = [op |-> "export_project", ok |-> FALSE,
                                       msg |-> MsgDirNotFound, name |-> project.name]
                     /\ UNCHANGED archives
                ELSE /\ stem \in DOMAIN archives
                        \/ Cardinality(DOMAIN archives) < MaxArchives
                     /\ archives' =
                            [s \in DOMAIN archives \cup {stem} |->
                                IF s = stem THEN disk[project.project_path]
                                ELSE archives[s]]
                     /\ reg_result' = [op |-> "export_project", ok |-> TRUE,
                                       msg |-> MsgExported, name |-> project.name]
    /\ UNCHANGED <<projects, projects_seq, disk, project_files, store_vars, env_vars>>

\* _validate_project_structure(temp_dir)
validate_project_structure(tree) == required_entries \subseteq tree.entries

\* temp_<time>, the staging directory import_project extracts into
temp_dir == <<"t", "e", "m", "p", "_">>

\* temp_dir.mkdir(exist_ok=True) and shutil.unpack_archive(zip_path, temp_dir)
unpack_archive(d, tree) ==
    [x \in DOMAIN d \cup {temp_dir} |-> IF x = temp_dir THEN tree ELSE d[x]]

\* temp_dir.rename(target_path)
rename_directory(d, from, to) ==
    [x \in (DOMAIN d \ {from}) \cup {to} |-> IF x = to THEN d[from] ELSE d[x]]

\* the mutant of cleanup_staging: no finally clause
leave_staging(d) == d

\* the finally clause: if temp_dir.exists(): shutil.rmtree(temp_dir)
cleanup_staging(d) == IF temp_dir \in DOMAIN d THEN rmtree(d, temp_dir) ELSE d

\* ProjectManager.import_project(zip_path), zip_path an archive that exists
import_project(stem, fault) ==
    /\ stem \in DOMAIN archives
    /\ LET project_name == remove_all(stem, export_suffix)
           safe_name == _sanitize_name(project_name)
           tree == archives[stem]
           target_path == project_path_of(safe_name)
           unpacked == unpack_archive(disk, tree)
           moved == rename_directory(unpacked, temp_dir, target_path)
           r == insert_project(safe_name, fault)
       IN  IF ~validate_project_structure(unpacked[temp_dir])
           THEN /\ reg_result' = [op |-> "import_project", ok |-> FALSE,
                                  msg |-> MsgInvalidStructure, name |-> project_name]
                /\ disk' = cleanup_staging(unpacked)
                /\ UNCHANGED <<projects, projects_seq>>
           ELSE IF safe_name = None
           THEN \* projects_dir / None raises TypeError
                /\ reg_result' = [op |-> "import_project", ok |-> FALSE,
                                  msg |-> MsgImportError, name |-> project_name]
                /\ disk' = cleanup_staging(unpacked)
                /\ UNCHANGED <<projects, projects_seq>>
           ELSE IF target_path \in DOMAIN unpacked
           THEN /\ reg_result' = [op |-> "import_project", ok |-> FALSE,
                                  msg |-> MsgImportExists, name |-> project_name]
                /\ disk' = cleanup_staging(unpacked)
                /\ UNCHANGED <<projects, projects_seq>>
           ELSE /\ r.ok => projects_seq < MaxProjects
                /\ projects' = r.rows
                /\ projects_seq' = r.seq
                /\ disk' = cleanup_staging(IF r.ok THEN moved
                                           ELSE rmtree(moved, target_path))
                /\ reg_result' = [op |-> "import_project", ok |-> r.ok,
                                  msg |-> IF r.ok THEN MsgImported ELSE r.msg,
                                  name |-> project_name]
    /\ UNCHANGED <<archives, project_files, store_vars, env_vars>>

\* DatabaseManager.update_project_settings(project_id, settings); settings is
\* what json.dumps made of the dict
update_project_settings(project_id, settings, fault) ==
    /\ IF fault
       THEN /\ reg_result' = [op |-> "update_project_settings", ok |-> FALSE,
                              msg |-> MsgSettingsError, name |-> <<>>]
            /\ UNCHANGED projects
       ELSE /\ projects' = {IF p.id = project_id
                            THEN [p EXCEPT !.settings = settings,
                                           !.modified_at = now]
                            ELSE p : p \in projects}
            /\ reg_result' = [op |-> "update_project_settings", ok |-> TRUE,
                              msg |-> MsgSettingsUpdated, name |-> <<>>]
    /\ UNCHANGED <<projects_seq, disk, archives, project_files, store_vars, env_vars>>

\* UPDATE projects SET modified_at = CURRENT_TIMESTAMP WHERE id = ?
touch_project(rows, project_id) ==
    {IF p.id = project_id THEN [p EXCEPT !.modified_at = now] ELSE p : p \in rows}

\* DatabaseManager.add_project_file(project_id, ...); the registry enforces
\* no foreign key either, so the project need not exist
add_project_file(project_id, fault) ==
    /\ IF fault
       THEN /\ reg_result' = [op |-> "add_project_file", ok |-> FALSE,
                              msg |-> MsgFileError, name |-> <<>>]
            /\ UNCHANGED <<project_files, projects>>
       ELSE /\ project_files.seq < MaxFiles
            /\ LET id == autoincrement(project_files.seq,
                                       {pf.id : pf \in project_files.rows})
               IN  project_files' =
                       [rows |-> project_files.rows \cup
                                    {[id |-> id, project_id |-> project_id]},
                        seq |-> id]
            /\ projects' = touch_project(projects, project_id)
            /\ reg_result' = [op |-> "add_project_file", ok |-> TRUE,
                              msg |-> MsgFileAdded, name |-> <<>>]
    /\ UNCHANGED <<projects_seq, disk, archives, store_vars, env_vars>>

\* DatabaseManager.delete_project_file(file_id): the record is looked up
\* through a JOIN with projects
delete_project_file(file_id) ==
    /\ LET file_info == {pf \in project_files.rows :
                            pf.id = file_id /\ pf.project_id \in ProjectIds}
       IN  IF file_info = {}
           THEN /\ reg_result' = [op |-> "delete_project_file", ok |-> FALSE,
                                  msg |-> MsgFileNotFound, name |-> <<>>]
                /\ UNCHANGED <<project_files, projects>>
           ELSE LET pf == CHOOSE f \in file_info : TRUE IN
                /\ project_files' = [project_files EXCEPT !.rows = @ \ {pf}]
                /\ projects' = touch_project(projects, pf.project_id)
                /\ reg_result' = [op |-> "delete_project_file", ok |-> TRUE,
                                  msg |-> MsgFileDeleted, name |-> <<>>]
    /\ UNCHANGED <<projects_seq, disk, archives, store_vars, env_vars>>

\* DatabaseManager.get_project_files(project_id)
get_project_files(project_id) ==
    {pf \in project_files.rows : pf.project_id = project_id}

\* total_files of DatabaseManager.get_project_statistics(project_id)
total_files(project_id) == Cardinality(get_project_files(project_id))

\* ORDER BY p.modified_at DESC: a may come before b in the result
ListedBefore(a, b) == a.modified_at >= b.modified_at

\* DatabaseManager.get_all_projects(): what the SELECT may return. Rows with
\* equal modified_at come in an order the statement does not fix.
get_all_projects ==
    LET n == Cardinality(projects) IN
    {l \in [1..n -> projects] :
        /\ \A i, j \in 1..n : i # j => l[i] # l[j]
        /\ \A i, j \in 1..n : i < j => ListedBefore(l[i], l[j])}

(***************************************************************************)
(* The calls step by step: each statement that reads or changes the        *)
(* directories or the table is a step of its own, so that the steps of two *)
(* callers can interleave and a filesystem operation can fail.             *)
(***************************************************************************)

\* "return success, message": the call of caller c is over
returned(c, ok, msg) ==
    [calls[c] EXCEPT !.pc = "idle", !.msg = msg,
                     !.outcome = IF ok THEN "success" ELSE "failure"]

\* an exception leaves the call: the caller gets no result
raised(c) == [calls[c] EXCEPT !.pc = "idle", !.msg = "", !.outcome = "raised"]

at(c, pc) == [calls[c] EXCEPT !.pc = pc]

\* ProjectManager.create_project, lines 24-26: the name is sanitized
pm_create_call(c, name) ==
    /\ calls[c].pc = "idle"
    /\ LET safe_name == _sanitize_name(name) IN
        calls' = [calls EXCEPT ![c] =
            IF safe_name = None
            THEN [pc |-> "idle", op |-> "create_project", name |-> name, id |-> 0,
                  msg |-> MsgInvalidName, outcome |-> "failure"]
            ELSE [pc |-> "exists", op |-> "create_project", name |-> safe_name,
                  id |-> 0, msg |-> "", outcome |-> "none"]]
    /\ UNCHANGED <<store_vars, reg_vars, now, sanitized>>

\* lines 30-32: if project_path.exists()
pm_create_exists(c) ==
    /\ calls[c].pc = "exists"
    /\ calls' = [calls EXCEPT ![c] =
            IF project_path_of(calls[c].name) \in DOMAIN disk
            THEN returned(c, FALSE, MsgAlreadyExists)
            ELSE at(c, "structure")]
    /\ UNCHANGED <<store_vars, reg_vars, now, sanitized>>

\* line 35: _create_project_structure(project_path); mkdir of sources/ raises
\* FileExistsError when it is there already
pm_create_structure(c, io_fault) ==
    /\ calls[c].pc = "structure"
    /\ LET project_path == project_path_of(calls[c].name) IN
        IF \/ io_fault
           \/ /\ project_path \in DOMAIN disk
              /\ "sources" \in disk[project_path].entries
        THEN /\ calls' = [calls EXCEPT ![c] = at(c, "except")]
             /\ UNCHANGED disk
        ELSE /\ disk' = create_project_structure(disk, project_path)
             /\ calls' = [calls EXCEPT ![c] = at(c, "insert")]
    /\ UNCHANGED <<projects, projects_seq, archives, reg_result, project_files>>
    /\ UNCHANGED <<store_vars, now, sanitized>>

\* line 38: self.db_manager.create_project(safe_name), which makes the
\* directory if it is missing and inserts the row
pm_create_insert(c, fault) ==
    /\ calls[c].pc = "insert"
    /\ LET r == insert_project(calls[c].name, fault) IN
        /\ r.ok => projects_seq < MaxProjects
        /\ disk' = makedirs(disk, project_path_of(calls[c].name))
        /\ projects' = r.rows
        /\ projects_seq' = r.seq
        /\ calls' = [calls EXCEPT ![c] =
                IF r.ok THEN returned(c, TRUE, MsgCreated)
                ELSE [calls[c] EXCEPT !.pc = "cleanup", !.msg = r.msg]]
    /\ UNCHANGED <<archives, reg_result, project_files>>
    /\ UNCHANGED <<store_vars, now, sanitized>>

\* lines 39-42: shutil.rmtree(project_path), which raises when the removal
\* fails or the directory is not there
pm_create_cleanup(c, io_fault) ==
    /\ calls[c].pc = "cleanup"
    /\ LET project_path == project_path_of(calls[c].name) IN
        IF io_fault \/ project_path \notin DOMAIN disk
        THEN /\ calls' = [calls EXCEPT ![c] = at(c, "except")]
             /\ UNCHANGED disk
        ELSE /\ disk' = rmtree(disk, project_path)
             /\ calls' = [calls EXCEPT ![c] = returned(c, FALSE, calls[c].msg)]
    /\ UNCHANGED <<projects, projects_seq, archives, reg_result, project_files>>
    /\ UNCHANGED <<store_vars, now, sanitized>>

\* lines 46-50: the except clause; its own shutil.rmtree is guarded by nothing
pm_create_except(c, io_fault) ==
    /\ calls[c].pc = "except"
    /\ LET project_path == project_path_of(calls[c].name) IN
        IF project_path \notin DOMAIN disk
        THEN /\ calls' = [calls EXCEPT ![c] = returned(c, FALSE, MsgDbError)]
             /\ UNCHANGED disk
        ELSE IF io_fault
        THEN /\ calls' = [calls EXCEPT ![c] = raised(c)]
             /\ UNCHANGED disk
        ELSE /\ disk' = rmtree(disk, project_path)
             /\ calls' = [calls EXCEPT ![c] = returned(c, FALSE, MsgDbError)]
    /\ UNCHANGED <<projects, projects_seq, archives, reg_result, project_files>>
    /\ UNCHANGED <<store_vars, now, sanitized>>

\* the mutant of delete_row: the DELETE is left for later
keep_row(rows, project) == rows

\* DELETE FROM projects WHERE id = ?
delete_row(rows, project) == rows \ {project}

\* DatabaseManager.delete_project, lines 147-157 and 163-165: the row is
\* selected, deleted and the deletion committed
db_delete_call(c, project_id, fault) ==
    /\ calls[c].pc = "idle"
    /\ IF fault
       THEN /\ calls' = [calls EXCEPT ![c] =
                    [pc |-> "idle", op |-> "delete_project", name |-> <<>>,
                     id |-> project_id, msg |-> MsgDeleteError,
                     outcome |-> "failure"]]
            /\ UNCHANGED projects
       ELSE IF project_id \notin ProjectIds
       THEN /\ calls' = [calls EXCEPT ![c] =
                    [pc |-> "idle", op |-> "delete_project", name |-> <<>>,
                     id |-> project_id, msg |-> MsgNotFound,
                     outcome |-> "failure"]]
            /\ UNCHANGED projects
       ELSE LET project == CHOOSE p \in projects : p.id = project_id IN
            /\ projects' = delete_row(projects, project)
            /\ calls' = [calls EXCEPT ![c] =
                    [pc |-> "rmtree", op |-> "delete_project",
                     name |-> project.project_path, id |-> project_id,
                     msg |-> "", outcome |-> "none"]]
    /\ UNCHANGED <<projects_seq, disk, archives, reg_result, project_files>>
    /\ UNCHANGED <<store_vars, now, sanitized>>

\* lines 160-162: shutil.rmtree(project[0], ignore_errors=True)
db_delete_rmtree(c, io_fault) ==
    /\ calls[c].pc = "rmtree"
    /\ disk' = IF io_fault THEN disk ELSE rmtree(disk, calls[c].name)
    /\ calls' = [calls EXCEPT ![c] = returned(c, TRUE, MsgDeleted)]
    /\ UNCHANGED <<projects, projects_seq, archives, reg_result, project_files>>
    /\ UNCHANGED <<store_vars, now, sanitized>>

\* what rendering and previewing leave in temp/ and cache/
ScratchItems ==
    {[name |-> "frame.tmp", kind |-> "file"], [name |-> "thumbs", kind |-> "dir"]}
ScratchDirs == {"temp", "cache"}

\* something is written into temp/ or cache/ of a project directory
write_scratch(path, where, item) ==
    /\ path \in DOMAIN disk
    /\ where \in disk[path].entries
    /\ disk' = [disk EXCEPT ![path] =
                   IF where = "temp" THEN [@ EXCEPT !.temp = @ \cup {item}]
                   ELSE [@ EXCEPT !.cache = @ \cup {item}]]
    /\ UNCHANGED <<projects, projects_seq, archives, reg_result, project_files>>
    /\ UNCHANGED <<store_vars, env_vars>>

\* the mutant of empty_scratch: rmtree of temp/ and cache/ themselves
remove_scratch(tree) ==
    [entries |-> tree.entries \ ScratchDirs, temp |-> {}, cache |-> {}]

\* for item in dir.iterdir(): a file is unlinked, a directory is rmtree'd
cleaned(items) == {i \in items : ~(i.kind = "file" \/ i.kind = "dir")}

\* lines 209-223: both loops have run
empty_scratch(tree) ==
    [tree EXCEPT !.temp = cleaned(tree.temp), !.cache = cleaned(tree.cache)]

\* what a loop that raised leaves: an item of temp/ was not removed and
\* cache/ was not reached, or temp/ is empty and an item of cache/ stays
failed_cleanings(tree) ==
    {[tree EXCEPT !.temp = left] : left \in (SUBSET tree.temp) \ {{}}}
        \cup {[tree EXCEPT !.temp = cleaned(tree.temp), !.cache = left] :
                  left \in (SUBSET tree.cache) \ {{}}}

\* ProjectManager.clean_temp_files(project_id)
clean_temp_files(project_id, io_fault) ==
    /\ IF get_project_by_id(project_id) = {}
       THEN /\ reg_result' = [op |-> "clean_temp_files", ok |-> FALSE,
                              msg |-> MsgNotFound, name |-> <<>>]
            /\ UNCHANGED disk
       ELSE LET project == CHOOSE p \in projects : p.id = project_id
                path == project.project_path
            IN  IF path \notin DOMAIN disk
                THEN \* neither temp_dir.exists() nor cache_dir.exists()
                     /\ reg_result' = [op |-> "clean_temp_files", ok |-> TRUE,
                                       msg |-> MsgCleaned, name |-> project.name]
                     /\ UNCHANGED disk
                ELSE IF io_fault
                THEN /\ \E tree \in failed_cleanings(disk[path]) :
                            disk' = [disk EXCEPT ![path] = tree]
                     /\ reg_result' = [op |-> "clean_temp_files", ok |-> FALSE,
                                       msg |-> MsgCleanError, name |-> project.name]
                ELSE /\ disk' = [disk EXCEPT ![path] = empty_scratch(disk[path])]
                     /\ reg_result' = [op |-> "clean_temp_files", ok |-> TRUE,
                                       msg |-> MsgCleaned, name |-> project.name]
    /\ UNCHANGED <<projects, projects_seq, archives, project_files>>
    /\ UNCHANGED <<store_vars, env_vars>>

Next ==
    \/ \E n \in RawNames, f \in FaultChoices : create_project(n, f)
    \/ \E n \in RawNames, f \in FaultChoices : db_create_project(n, f)
    \/ \E i \in 1..MaxProjects, n \in RawNames :
           rename_project(i, n, project_path_of(n))
    \/ \E i \in 1..MaxProjects : delete_project(i)
    \/ \E i \in 1..MaxProjects : export_project(i)
    \/ \E s \in ArchiveStems, f \in FaultChoices : import_project(s, f)

Spec == Init /\ [][Next]_vars

\* the registry when nothing but create_project is ever called
CreateNext ==
    \/ \E n \in RawNames, f \in FaultChoices : create_project(n, f)
    \/ \E n \in RawNames, f \in FaultChoices : db_create_project(n, f)

CreateSpec == Init /\ [][CreateNext]_vars

\* projects whose temp/ and cache/ fill up and are cleaned
CleanNext ==
    \/ \E n \in RawNames : create_project(n, FALSE)
    \/ \E i \in 1..MaxProjects, n \in RawNames :
           rename_project(i, n, project_path_of(n))
    \/ \E i \in 1..MaxProjects : delete_project(i)
    \/ \E x \in DOMAIN disk, w \in ScratchDirs, i \in ScratchItems :
           write_scratch(x, w, i)
    \/ \E i \in 1..MaxProjects, f \in IoFaultChoices : clean_temp_files(i, f)

CleanSpec == Init /\ [][CleanNext]_vars

\* projects that are created, renamed, deleted, exported and imported; a
\* database statement may fail, no filesystem operation does
LifecycleNext ==
    \/ \E n \in RawNames, f \in FaultChoices : create_project(n, f)
    \/ \E i \in 1..MaxProjects, n \in RawNames :
           rename_project(i, n, project_path_of(n))
    \/ \E i \in 1..MaxProjects : delete_project(i)
    \/ \E i \in 1..MaxProjects : export_project(i)
    \/ \E s \in ArchiveStems, f \in FaultChoices : import_project(s, f)

LifecycleSpec == Init /\ [][LifecycleNext]_vars

\* the media of one open project, as ProjectWindow adds and deletes it
MediaNext ==
    \/ \E o \in Origins, f \in MediaNames, io \in IoFaultChoices :
           add_media(o, f, io)
    \/ \E m \in media_files, io \in IoFaultChoices : delete_media(m, io)

MediaSpec == Init /\ [][MediaNext]_vars

\* rows that are added to and deleted from the tables of a store and of the
\* registry
IdNext ==
    \/ \E f \in FileNames : add_media_file(f)
    \/ \E m \in MediaIdArgs : delete_media_file(m)
    \/ \E m \in MediaIdArgs : add_timeline_item(m, 0, 2)
    \/ \E t \in MediaIdArgs : delete_timeline_item(t)
    \/ add_effect(1)
    \/ delete_effect(1)
    \/ \E n \in RawNames : create_project(n, FALSE)
    \/ \E i \in 1..MaxProjects : delete_project(i)

IdSpec == Init /\ [][IdNext]_vars

\* valid project names, with and without "_export" in them
RoundTripNames ==
    {<<"a">>, <<"a">> \o export_suffix, export_suffix \o <<"a">>}

\* projects made by ProjectManager.create_project that are exported, deleted
\* and imported
RoundTripNext ==
    \/ \E n \in RoundTripNames, f \in FaultChoices : create_project(n, f)
    \/ \E i \in 1..MaxProjects : export_project(i)
    \/ \E i \in 1..MaxProjects : delete_project(i)
    \/ \E n \in RoundTripNames, f \in FaultChoices :
           import_project(n \o export_suffix, f)

RoundTripSpec == Init /\ [][RoundTripNext]_vars

\* projects and the file records the registry keeps of them
FilesNext ==
    \/ \E n \in RawNames, f \in FaultChoices : create_project(n, f)
    \/ \E i \in 1..MaxProjects, f \in FaultChoices : add_project_file(i, f)
    \/ \E i \in 1..MaxFiles : delete_project_file(i)
    \/ \E i \in 1..MaxProjects : delete_project(i)
    \/ \E i \in 1..MaxProjects : export_project(i)

FilesSpec == Init /\ [][FilesNext]_vars

\* one project store, as ProjectDatabase gives access to it
StoreSpec == Init /\ [][StoreNext]_vars

\* a project directory in which no ProjectDatabase was constructed yet: no
\* project.db, hence no table and no row
NoStoreInit ==
    /\ project_settings = {}
    /\ media_files = {}
    /\ timeline = {}
    /\ effects = {}
    /\ store_seq = [media_files |-> 0, timeline |-> 0, effects |-> 0]
    /\ store_result = [op |-> "none", ok |-> TRUE, id |-> 0]
    /\ source_files = << >>

OpenInit == NoStoreInit /\ RegInit /\ EnvInit

\* a store that is constructed, written to and constructed again
OpenNext ==
    \/ ensure_database_exists
    \/ \E k \in SettingKeys, v \in SettingValues, f \in FaultChoices :
           update_project_setting(k, v, f)
    \/ \E f \in FileNames : add_media_file(f)
    \/ \E m \in MediaIdArgs : add_timeline_item(m, 0, 2)
    \/ add_effect(1)
    \/ tick

OpenSpec == OpenInit /\ [][OpenNext]_vars

\* the settings of one project store, with time passing
SettingsNext ==
    \/ \E k \in SettingKeys, v \in SettingValues, f \in FaultChoices :
           update_project_setting(k, v, f)
    \/ tick

SettingsSpec == Init /\ [][SettingsNext]_vars

\* _sanitize_name applied to a string, and again to what it returned
SanitizeInit ==
    /\ StoreInit /\ RegInit
    /\ now = 0
    /\ calls = [c \in Callers |-> idle_call]
    /\ sanitized \in {[name |-> n, once |-> Unset, twice |-> Unset] :
                          n \in SanitizeInputs}

SanitizeNext == sanitize_once \/ sanitize_twice

SanitizeSpec == SanitizeInit /\ [][SanitizeNext]_vars

\* the registry with time passing
ListNext ==
    \/ \E n \in RawNames, f \in FaultChoices : create_project(n, f)
    \/ \E i \in 1..MaxProjects, n \in RawNames :
           rename_project(i, n, project_path_of(n))
    \/ \E i \in 1..MaxProjects, b \in SettingsBlobs, f \in FaultChoices :
           update_project_settings(i, b, f)
    \/ \E i \in 1..MaxProjects, f \in FaultChoices : add_project_file(i, f)
    \/ \E i \in 1..MaxFiles : delete_project_file(i)
    \/ tick

ListSpec == Init /\ [][ListNext]_vars

\* the registry and the media files of the open project's store, with time
\* passing and every statement working
TouchNext ==
    \/ \E n \in RawNames : create_project(n, FALSE)
    \/ \E i \in 1..MaxProjects, n \in RawNames :
           rename_project(i, n, project_path_of(n))
    \/ \E i \in 1..MaxProjects, b \in SettingsBlobs :
           update_project_settings(i, b, FALSE)
    \/ \E i \in 1..MaxProjects : add_project_file(i, FALSE)
    \/ \E i \in 1..MaxFiles : delete_project_file(i)
    \/ \E f \in FileNames : add_media_file(f)
    \/ \E m \in MediaIdArgs : delete_media_file(m)
    \/ tick

TouchSpec == Init /\ [][TouchNext]_vars

\* one caller, whose calls run one step at a time to their end
SeqNext ==
    \/ \E n \in RawNames : pm_create_call(1, n)
    \/ pm_create_exists(1)
    \/ \E io \in IoFaultChoices : pm_create_structure(1, io)
    \/ \E f \in FaultChoices : pm_create_insert(1, f)
    \/ \E io \in IoFaultChoices : pm_create_cleanup(1, io)
    \/ \E io \in IoFaultChoices : pm_create_except(1, io)
    \/ \E i \in 1..MaxProjects, f \in FaultChoices : db_delete_call(1, i, f)
    \/ \E io \in IoFaultChoices : db_delete_rmtree(1, io)

SeqSpec == Init /\ [][SeqNext]_vars

\* two callers, whose steps interleave in every order
ConcNext ==
    \/ \E c \in Callers, n \in RawNames : pm_create_call(c, n)
    \/ \E c \in Callers : pm_create_exists(c)
    \/ \E c \in Callers, io \in IoFaultChoices : pm_create_structure(c, io)
    \/ \E c \in Callers, f \in FaultChoices : pm_create_insert(c, f)
    \/ \E c \in Callers, io \in IoFaultChoices : pm_create_cleanup(c, io)
    \/ \E c \in Callers, io \in IoFaultChoices : pm_create_except(c, io)
    \/ \E c \in Callers, i \in 1..MaxProjects, f \in FaultChoices :
           db_delete_call(c, i, f)
    \/ \E c \in Callers, io \in IoFaultChoices : db_delete_rmtree(c, io)

ConcSpec == Init /\ [][ConcNext]_vars

\* two callers that call create_project once each; the INSERT may fail, the
\* filesystem fails only where one caller is in the way of the other
RaceNext ==
    \/ \E c \in Callers, n \in RawNames :
           calls[c].op = "none" /\ pm_create_call(c, n)
    \/ \E c \in Callers : pm_create_exists(c)
    \/ \E c \in Callers : pm_create_structure(c, FALSE)
    \/ \E c \in Callers, f \in FaultChoices : pm_create_insert(c, f)
    \/ \E c \in Callers : pm_create_cleanup(c, FALSE)
    \/ \E c \in Callers : pm_create_except(c, FALSE)

RaceSpec == Init /\ [][RaceNext]_vars

(***************************************************************************)
(* Claims about the project store                                          *)
(***************************************************************************)

\* C4: deleting a media file cascades: once delete_media_file(M) has
\* succeeded on an existing media file M, no timeline row references M, the
\* placements of M are absent from get_timeline_items(), and
\* get_effects_for_timeline_item(P) is empty for every placement P M had.
C4_CascadeOnMediaDelete ==
    [][\A m \in MediaIdArgs :
        (m \in MediaIds /\ delete_media_file(m)) =>
            /\ store_result'.ok
            /\ \A t \in timeline' : t.media_id # m
            /\ \A i \in 1..Len(get_timeline_items') :
                   get_timeline_items'[i].media_id # m
            /\ \A t \in TimelineOfMedia(m) :
                   get_effects_for_timeline_item(t.id)' = {}]_vars

\* C5: get_timeline_items() returns every placement whose media file exists,
\* each once and with its own fields, sorted ascending by track_number and
\* then by position.
C5_TimelineOrdering ==
    LET items == get_timeline_items
        n == Len(items)
        listed == {t \in timeline : t.media_id \in MediaIds}
    IN  /\ n = Cardinality(listed)
        /\ \A t \in listed : \E i \in 1..n :
               /\ items[i].id = t.id
               /\ items[i].track_number = t.track_number
               /\ items[i].position = t.position
        /\ \A i, j \in 1..n : i < j =>
               \/ items[i].track_number < items[j].track_number
               \/ /\ items[i].track_number = items[j].track_number
                  /\ items[i].position <= items[j].position

\* the example of the claim: inserted as (1,5), (0,10), (1,2), listed as
\* (0,10), (1,2), (1,5)
C5_Witness ==
    /\ \E t \in timeline : t.id = 1 /\ t.track_number = 1 /\ t.position = 5
    /\ \E t \in timeline : t.id = 2 /\ t.track_number = 0 /\ t.position = 10
    /\ \E t \in timeline : t.id = 3 /\ t.track_number = 1 /\ t.position = 2
    /\ Len(get_timeline_items) = 3
    /\ [i \in 1..3 |-> get_timeline_items[i].id] = <<2, 3, 1>>

\* C7: add_timeline_item with a media_id that is no row of media_files fails
\* and inserts no timeline row.
C7_AddTimelineItemNotFound ==
    [][\A m \in MediaIdArgs, tr \in Tracks, pos \in Positions :
        (m \notin MediaIds /\ add_timeline_item(m, tr, pos)) =>
            /\ ~store_result'.ok
            /\ timeline' = timeline]_vars

\* C8: add_effect with a timeline_id that is no row of timeline fails and
\* inserts no effects row.
C8_AddEffectNotFound ==
    [][\A t \in TimelineIdArgs :
        (t \notin TimelineIds /\ add_effect(t)) =>
            /\ ~store_result'.ok
            /\ effects' = effects]_vars

\* C9: delete_timeline_item(id) removes the timeline row and every effect
\* whose timeline_id is id.
C9_CascadeOnTimelineDelete ==
    [][\A t \in TimelineIdArgs :
        (t \in TimelineIds /\ delete_timeline_item(t)) =>
            /\ t \notin TimelineIds'
            /\ get_effects_for_timeline_item(t)' = {}
            /\ \A e \in effects' : e.timeline_id # t]_vars

(***************************************************************************)
(* Claims about the project registry                                       *)
(***************************************************************************)

\* C1: after any sequence of create_project calls the names of the registry
\* rows are pairwise distinct, and a create_project call (of ProjectManager,
\* under its sanitized name, or of DatabaseManager) for the name of an
\* existing project fails, with the name-conflict outcome unless the
\* statement itself failed, adds no row and leaves the set of directories
\* as it was.
NameConflictMsgs == {MsgNameExists, MsgAlreadyExists}

C1_NameUniqueness ==
    [][/\ \A p, q \in projects' : p.name = q.name => p = q
       /\ \A n \in RawNames, f \in FaultChoices :
            (_sanitize_name(n) \in ProjectNames /\ create_project(n, f)) =>
                /\ ~reg_result'.ok
                /\ reg_result'.msg \in NameConflictMsgs
                /\ projects' = projects
                /\ DOMAIN disk' = DOMAIN disk
       /\ \A n \in RawNames, f \in FaultChoices :
            (n \in ProjectNames /\ db_create_project(n, f)) =>
                /\ ~reg_result'.ok
                /\ ~f => reg_result'.msg \in NameConflictMsgs
                /\ projects' = projects
                /\ DOMAIN disk' = DOMAIN disk]_vars

\* a second create of a registered name has just been refused
C1_Witness ==
    /\ reg_result.op \in {"create_project", "db_create_project"}
    /\ ~reg_result.ok
    /\ reg_result.msg \in NameConflictMsgs
    /\ \E p \in projects : p.name = reg_result.name

\* C2: every row of the projects table has a directory at its project_path
\* that contains at least sources/, output/ and temp/.
C2_RowHasDirectory ==
    \A p \in projects :
        /\ p.project_path \in DOMAIN disk
        /\ {"sources", "output", "temp"} \subseteq disk[p.project_path].entries

\* C3: when create_project(X) of ProjectManager fails at the row insert, after
\* it has made the project directory, no directory for X is on disk when it
\* returns and no row was added.
InsertFailureMsgs == {MsgNameExists, MsgDbError}

C3_CreateAtomicOnFailure ==
    [][\A n \in RawNames, f \in FaultChoices :
        (reg_result'.msg \in InsertFailureMsgs /\ create_project(n, f)) =>
            /\ ~reg_result'.ok
            /\ _sanitize_name(n) \notin DOMAIN disk'
            /\ disk' = disk
            /\ projects' = projects]_vars

\* create_project has just failed at a row insert that was made to fail
C3_Witness ==
    /\ reg_result.op = "create_project"
    /\ ~reg_result.ok
    /\ reg_result.msg = MsgDbError
    /\ _sanitize_name(reg_result.name) \notin DOMAIN disk
    /\ _sanitize_name(reg_result.name) \notin ProjectNames

\* C6: rename_project renames the project directory and then updates the row;
\* when the update fails because the new name is taken, the directory is at
\* its original path and the row is as it was.
C6_RenameRollback ==
    [][\A i \in 1..MaxProjects, n \in RawNames :
        (i \in ProjectIds /\ rename_project(i, n, project_path_of(n))) =>
            LET old == CHOOSE p \in projects : p.id = i IN
            old.project_path \in DOMAIN disk =>
                IF reg_result'.ok
                THEN /\ project_path_of(n) \in DOMAIN disk'
                     /\ disk'[project_path_of(n)] = disk[old.project_path]
                     /\ project_path_of(n) # old.project_path
                            => old.project_path \notin DOMAIN disk'
                ELSE /\ old.project_path \in DOMAIN disk'
                     /\ old \in projects']_vars

\* the name of the project export_project wrote the archive for
exported_name(stem) == SubSeq(stem, 1, Len(stem) - Len(export_suffix))

\* C10: importing the archive export_project wrote for a project that was
\* deleted afterwards (it has no row and no directory any more) succeeds and
\* registers a project whose directory holds what the archive holds.
C10_ExportImportRoundTrip ==
    [][\A s \in ArchiveStems :
        (/\ import_project(s, FALSE)
         /\ exported_name(s) \notin ProjectNames
         /\ project_path_of(exported_name(s)) \notin DOMAIN disk) =>
            /\ reg_result'.ok
            /\ \E p \in projects' \ projects :
                   /\ p.project_path \in DOMAIN disk'
                   /\ disk'[p.project_path] = archives[s]]_vars

(***************************************************************************)
(* Claims about names                                                      *)
(***************************************************************************)

\* C11: _sanitize_name is idempotent: applied to what it returned for a
\* string, the invalid marker included, it returns that same value.
C11_SanitizeIdempotent ==
    sanitized.twice # Unset => sanitized.twice = sanitized.once

(***************************************************************************)
(* Claims about the settings of a project store                            *)
(***************************************************************************)

\* C12: a successful update_project_setting(k, v) on a key that holds another
\* value leaves exactly one row for k, get_project_settings() maps k to v,
\* the row's modified_at is the time of this write, and the row of every
\* other key is as it was.
C12_SettingsUpsert ==
    [][\A k \in SettingKeys, v \in SettingValues :
        (/\ \E r \in project_settings : r.key = k /\ r.value # v
         /\ update_project_setting(k, v, FALSE)) =>
            /\ store_result'.ok
            /\ Cardinality({r \in project_settings' : r.key = k}) = 1
            /\ get_project_settings'[k] = v
            /\ \A r \in project_settings' : r.key = k => r.modified_at = now
            /\ {r \in project_settings' : r.key # k}
                   = {r \in project_settings : r.key # k}]_vars

\* framerate, written as "30" when the store was made, holds after a later
\* write another value and the later time
C12_Witness ==
    /\ store_result.op = "update_project_setting"
    /\ store_result.ok
    /\ now > 0
    /\ \E r \in project_settings :
           /\ r.key = "framerate"
           /\ r.value = "60"
           /\ r.modified_at = now

(***************************************************************************)
(* Claims about calls that run step by step                                *)
(***************************************************************************)

\* the call of caller d has changed a directory or a row and has a step left
MidCall(d) == calls[d].pc \in {"insert", "cleanup", "rmtree"}

\* C13: calls of two callers for the same project name never interleave
\* their directory and row changes: no step of one caller changes a
\* directory or a row while the other caller is between the changes of a
\* call for the same name.
C13_PerNameSerialization ==
    [][\A c, d \in Callers :
        (/\ c # d
         /\ calls'[c] # calls[c]
         /\ disk' # disk \/ projects' # projects
         /\ MidCall(d)) =>
            calls'[c].name # calls[d].name]_vars

\* C14: no fault leaves a call: whatever filesystem or database step fails,
\* the cleanup included, the call ends by returning a result.
C14_NoFaultEscapes ==
    \A c \in Callers : calls[c].outcome # "raised"

\* C15: delete_project removes the row before the directory: the step that
\* removes the directory runs when the row is gone, returns success whether
\* or not the removal worked, and leaves get_project_by_id(id) empty; the
\* step that removes the row leaves the directories alone; on an id with no
\* row the call returns "Project not found" and changes nothing.
C15_DeleteOrdering ==
    [][\A c \in Callers :
        /\ \A io \in IoFaultChoices :
              db_delete_rmtree(c, io) =>
                /\ calls[c].id \notin ProjectIds
                /\ calls'[c].outcome = "success"
                /\ get_project_by_id(calls[c].id)' = {}
        /\ \A i \in 1..MaxProjects :
              db_delete_call(c, i, FALSE) =>
                IF i \in ProjectIds
                THEN /\ i \notin ProjectIds'
                     /\ disk' = disk
                     /\ calls'[c].pc = "rmtree"
                ELSE /\ calls'[c].outcome = "failure"
                     /\ calls'[c].msg = MsgNotFound
                     /\ projects' = projects
                     /\ disk' = disk]_vars

\* delete_project has returned success although its directory is still there
C15_Witness ==
    \E c \in Callers :
        /\ calls[c].op = "delete_project"
        /\ calls[c].outcome = "success"
        /\ calls[c].id \notin ProjectIds
        /\ calls[c].name \in DOMAIN disk

(***************************************************************************)
(* More claims about the project registry                                  *)
(***************************************************************************)

\* C16: rename_project on an id that has no row fails with not found and
\* changes no row and no directory.
C16_RenameNotFound ==
    [][\A i \in 1..MaxProjects, n \in RawNames :
        (i \notin ProjectIds /\ rename_project(i, n, project_path_of(n))) =>
            /\ ~reg_result'.ok
            /\ reg_result'.msg = MsgNotFound
            /\ projects' = projects
            /\ disk' = disk]_vars

\* a name _sanitize_name returns as it is
IsSanitized(name) == _sanitize_name(name) = name

\* C18: every call that creates a project builds its paths from a sanitized
\* name: each directory and each project_path that create_project (of
\* ProjectManager or of DatabaseManager) or import_project adds is a name
\* _sanitize_name leaves as it is.
C18_CreatedPathsSanitized ==
    [][(\E n \in RawNames, f \in FaultChoices :
            \/ create_project(n, f)
            \/ db_create_project(n, f)
            \/ \E s \in ArchiveStems : import_project(s, f)) =>
        /\ \A path \in DOMAIN disk' \ DOMAIN disk : IsSanitized(path)
        /\ \A p \in projects' \ projects : IsSanitized(p.project_path)]_vars

\* the failures of import_project the cleanup is for
ImportFailureMsgs ==
    {MsgInvalidStructure, MsgImportExists, MsgNameExists, MsgDbError}

\* C17: when import_project fails because the extracted tree is not a
\* project, because the target directory exists, or because the row insert
\* fails after the staging directory was moved into place, then on return
\* the staging directory is gone, no directory was added, no row was added
\* and every directory and row there was is unchanged.
C17_ImportCleanup ==
    [][\A s \in ArchiveStems, f \in FaultChoices :
        (reg_result'.msg \in ImportFailureMsgs /\ import_project(s, f)) =>
            /\ ~reg_result'.ok
            /\ temp_dir \notin DOMAIN disk'
            /\ disk' = disk
            /\ projects' = projects]_vars

\* import_project has just failed at the row insert, after the move
C17_Witness ==
    /\ reg_result.op = "import_project"
    /\ ~reg_result.ok
    /\ reg_result.msg \in InsertFailureMsgs
    /\ temp_dir \notin DOMAIN disk
    /\ _sanitize_name(reg_result.name) \notin DOMAIN disk

(***************************************************************************)
(* Claims about modified_at                                                *)
(***************************************************************************)

\* project_id is the first row of each of the lists
ListedFirst(lists, project_id) ==
    \A l \in lists : l[1].id = project_id

\* C19: get_all_projects() returns every row once, and of two projects the
\* one changed more recently comes earlier: the project a create, a rename,
\* a settings update or a file record has just changed is the first of the
\* list.
C19_ListedByRecency ==
    [][/\ \A l \in get_all_projects' :
             {l[i] : i \in DOMAIN l} = projects'
       /\ \A n \in RawNames :
             (create_project(n, FALSE) /\ reg_result'.ok) =>
                 ListedFirst(get_all_projects', projects_seq')
       /\ \A i \in ProjectIds :
             /\ \A n \in RawNames :
                   (rename_project(i, n, project_path_of(n)) /\ reg_result'.ok)
                       => ListedFirst(get_all_projects', i)
             /\ \A b \in SettingsBlobs :
                   update_project_settings(i, b, FALSE) => ListedFirst(get_all_projects', i)
             /\ add_project_file(i, FALSE) => ListedFirst(get_all_projects', i)]_vars

\* the modified_at of project_id is not older than the clock
Touched(project_id) ==
    \A p \in projects : p.id = project_id => p.modified_at >= now

\* C20: every change of a project or of its files brings the project's
\* modified_at up to the time of the change: a rename, a settings update,
\* adding or deleting a file record of the registry, and adding or deleting
\* a media file in the project's store.
C20_ModifiedAtFollowsMutations ==
    [][/\ \A i \in ProjectIds :
             /\ \A n \in RawNames :
                   (rename_project(i, n, project_path_of(n)) /\ reg_result'.ok)
                       => Touched(i)'
             /\ \A b \in SettingsBlobs :
                   update_project_settings(i, b, FALSE) => Touched(i)'
             /\ add_project_file(i, FALSE) => Touched(i)'
       /\ \A pf \in project_files.rows :
             (delete_project_file(pf.id) /\ reg_result'.ok)
                 => Touched(pf.project_id)'
       /\ \A f \in FileNames :
             add_media_file(f) => Touched(open_project)'
       /\ \A m \in MediaIds :
             delete_media_file(m) => Touched(open_project)']_vars

\* what get_project_settings() returns for the defaults of ensure_database_exists
seeded_settings ==
    [k \in {d.key : d \in default_settings} |->
        (CHOOSE d \in default_settings : d.key = k).value]

\* C21: constructing ProjectDatabase where no project.db exists gives a store
\* whose get_project_settings() is exactly resolution=1920x1080, framerate=30,
\* audio_sample_rate=44100, audio_channels=2 and whose media, timeline and
\* effect tables have no row.
C21_NewStoreHasDefaults ==
    [][(~constructed /\ ensure_database_exists)
          => /\ get_project_settings' = seeded_settings
             /\ get_project_settings'["resolution"] = "1920x1080"
             /\ get_project_settings'["framerate"] = "30"
             /\ get_project_settings'["audio_sample_rate"] = "44100"
             /\ get_project_settings'["audio_channels"] = "2"
             /\ media_files' = {}
             /\ timeline' = {}
             /\ effects' = {}]_vars

\* a store constructed after the clock moved on, with nothing written to it
C21_Witness ==
    /\ store_result.op = "open"
    /\ now > 0
    /\ Cardinality(project_settings) = 4
    /\ \A r \in project_settings : r.modified_at = now
    /\ RowsInserted = 0

\* C29: constructing ProjectDatabase where project.db exists changes no media,
\* timeline or effect row and no setting: a default that was changed keeps the
\* value written by update_project_setting and a key that was added stays.
C29_ReopenIdempotent ==
    [][(constructed /\ ensure_database_exists)
          => /\ media_files' = media_files
             /\ timeline' = timeline
             /\ effects' = effects
             /\ project_settings' = project_settings
             /\ get_project_settings' = get_project_settings]_vars

\* a store with rows, a changed default and an added key, constructed again
C29_Witness ==
    /\ store_result.op = "open"
    /\ media_files # {}
    /\ timeline # {}
    /\ effects # {}
    /\ get_project_settings["framerate"] = "60"
    /\ "fps" \in DOMAIN get_project_settings

\* C22: the row decides whether a project exists: create_project and
\* import_project for a name that no row carries are never rejected with
\* "already exists" because a directory was left at the name's path.
C22_RowAuthoritative ==
    [][/\ \A n \in RawNames, f \in FaultChoices :
             (/\ _sanitize_name(n) # None
              /\ _sanitize_name(n) \notin ProjectNames
              /\ create_project(n, f))
                 => reg_result'.msg # MsgAlreadyExists
       /\ \A s \in ArchiveStems, f \in FaultChoices :
             (/\ _sanitize_name(remove_all(s, export_suffix)) # None
              /\ _sanitize_name(remove_all(s, export_suffix)) \notin ProjectNames
              /\ import_project(s, f))
                 => reg_result'.msg # MsgImportExists]_vars

\* C23: clean_temp_files(id) on a project that has a row leaves temp/ and
\* cache/ of its directory in place and empty and changes nothing else: the
\* other entries of the directory, every other directory, the rows of the
\* registry and the project's store stay as they were. For an id that has
\* no row it returns failure and changes nothing.
C23_CleanTempFiles ==
    [][\A i \in 1..MaxProjects :
          clean_temp_files(i, FALSE) =>
             /\ projects' = projects
             /\ project_files' = project_files
             /\ store_vars' = store_vars
             /\ DOMAIN disk' = DOMAIN disk
             /\ \A x \in DOMAIN disk : disk'[x].entries = disk[x].entries
             /\ IF i \in ProjectIds
                THEN LET path == (CHOOSE p \in projects : p.id = i).project_path
                     IN  /\ reg_result'.ok
                         /\ \A x \in DOMAIN disk \ {path} : disk'[x] = disk[x]
                         /\ path \in DOMAIN disk =>
                               /\ disk'[path].temp = {}
                               /\ disk'[path].cache = {}
                ELSE /\ ~reg_result'.ok
                     /\ disk' = disk]_vars

\* a project whose temp/ and cache/ were emptied and are still there, next
\* to a project whose temp/ and cache/ hold what was written to them
C23_Witness ==
    /\ reg_result.op = "clean_temp_files"
    /\ reg_result.ok
    /\ \E p \in projects, q \in projects :
          /\ p.name = reg_result.name
          /\ p.project_path \in DOMAIN disk
          /\ ScratchDirs \subseteq disk[p.project_path].entries
          /\ disk[p.project_path].temp = {}
          /\ disk[p.project_path].cache = {}
          /\ q.project_path \in DOMAIN disk
          /\ disk[q.project_path].temp = ScratchItems
          /\ disk[q.project_path].cache = ScratchItems

\* C24: once delete_project(id) has succeeded no project_files row carries
\* project_id = id: get_project_files(id) is empty and
\* get_project_statistics(id) counts no file.
C24_DeleteRemovesFileRows ==
    [][\A i \in 1..MaxProjects :
          (delete_project(i) /\ reg_result'.ok)
              => /\ get_project_files(i)' = {}
                 /\ total_files(i)' = 0]_vars

\* both callers have made their create_project call for one and the same
\* sanitized name and both calls have returned
BothReturned ==
    /\ \A c \in Callers : calls[c].pc = "idle" /\ calls[c].op = "create_project"
    /\ \A c, d \in Callers : calls[c].name = calls[d].name

\* C25: however the steps of two create_project calls for the same sanitized
\* name interleave, at most one call returns success, and if one does then
\* once both have returned the row's directory exists with its sources/,
\* output/ and temp/ subdirectories.
C25_CreateRace ==
    BothReturned =>
        /\ \A c, d \in Callers :
              (calls[c].outcome = "success" /\ calls[d].outcome = "success")
                  => c = d
        /\ (\E c \in Callers : calls[c].outcome = "success") =>
              \E p \in projects :
                  /\ p.name = calls[open_project].name
                  /\ p.project_path \in DOMAIN disk
                  /\ {"sources", "output", "temp"}
                        \subseteq disk[p.project_path].entries

\* C26: no project directory is orphaned: after any create_project,
\* rename_project, delete_project and import_project calls in which no
\* filesystem operation fails, every directory under projects/ is the
\* project_path of exactly one row.
C26_NoOrphanDirectory ==
    \A x \in DOMAIN disk :
        Cardinality({p \in projects : p.project_path = x}) = 1

\* C27: whatever ProjectWindow adds and deletes, two picked files of one base
\* name included, the file_path of every media_files record names a file
\* that is in sources/.
C27_MediaRecordHasFile ==
    \A m \in media_files : m.file_name \in DOMAIN source_files

\* the ids of the rows get_timeline_items() returns
ListedTimelineIds ==
    {get_timeline_items[k].id : k \in DOMAIN get_timeline_items}

\* C28: no id is handed out twice in a table of the store or in the
\* registry: every new row gets an id above all ids the table ever held, so
\* a timeline row or an effect row whose parent was deleted never gets a
\* parent again and never comes back in get_timeline_items().
C28_IdsNeverReused ==
    [][/\ \A m \in media_files : m.id <= store_seq.media_files
       /\ \A t \in timeline : t.id <= store_seq.timeline
       /\ \A e \in effects : e.id <= store_seq.effects
       /\ \A p \in projects : p.id <= projects_seq
       /\ \A m \in media_files' : m.id \notin MediaIds => m.id > store_seq.media_files
       /\ \A t \in timeline' : t.id \notin TimelineIds => t.id > store_seq.timeline
       /\ \A e \in effects' \ effects : e.id > store_seq.effects
       /\ \A p \in projects' : p.id \notin ProjectIds => p.id > projects_seq
       /\ store_seq'.media_files >= store_seq.media_files
       /\ store_seq'.timeline >= store_seq.timeline
       /\ store_seq'.effects >= store_seq.effects
       /\ projects_seq' >= projects_seq
       /\ \A t \in timeline \cap timeline' :
             (t.media_id <= store_seq.media_files /\ t.media_id \notin MediaIds)
                 => /\ t.media_id \notin MediaIds'
                    /\ t.id \notin ListedTimelineIds'
       /\ \A e \in effects \cap effects' :
             (e.timeline_id <= store_seq.timeline /\ e.timeline_id \notin TimelineIds)
                 => e.timeline_id \notin TimelineIds']_vars

\* media file 1 was deleted with a placement left behind, project 1 was
\* deleted, and a media file and a project were added after that
C28_Witness ==
    /\ store_result.op = "add_media_file"
    /\ MediaIds = {store_result.id}
    /\ store_result.id > 1
    /\ \E t \in timeline : t.media_id = 1
    /\ ListedTimelineIds = {}
    /\ reg_result.op = "create_project"
    /\ reg_result.ok
    /\ ProjectIds # {}
    /\ 1 \notin ProjectIds

\* C30: for every valid name n, "_export" inside it or not, importing the
\* archive export_project wrote for project n after that project was deleted
\* registers a project whose name and whose directory name are n.
C30_NameRoundTrip ==
    [][\A n \in RoundTripNames :
        (/\ n \notin ProjectNames
         /\ project_path_of(n) \notin DOMAIN disk
         /\ import_project(n \o export_suffix, FALSE)) =>
            /\ reg_result'.ok
            /\ \E p \in projects' \ projects :
                   /\ p.name = n
                   /\ p.project_path = project_path_of(n)
                   /\ p.project_path \in DOMAIN disk']_vars

====
